---- MODULE Spec2Model ----
(***************************************************************************)
(* LambdaEdgeChecker.return_edges of principalmapper/graphing/             *)
(* lambda_edges.py as a state machine: one pass over every ordered pair of *)
(* the input nodes, the three gates, the resource-policy check, the local  *)
(* authorization checks and the three edge mechanisms.                     *)
(*                                                                         *)
(* Strings that the code takes apart (ARNs) are sequences of tokens, so    *)
(* that the substring test ':role/' and the split on ':' are computed.     *)
(* The caller passes a writable stream as `output` and a list of distinct  *)
(* nodes; the debug flag only changes what the evaluators print.           *)
(***************************************************************************)
EXTENDS Integers, Sequences, FiniteSets, TLC

\* ------------------------------------------------------------------ bounds
\* Number of nodes handed to return_edges.
NumNodes == 3
\* Largest number of functions the Lambda inventory lists.
MaxFuncs == 2

VARIABLES
    nodes,                \* the `nodes` argument: a sequence of Node objects
    session,              \* self.session: "None" or "live"
    inventory,            \* what list_functions yields over all regions
    function_list,        \* local function_list
    pc,                   \* position in return_edges
    i, j,                 \* positions of node_source / node_destination
    result,               \* local result (list of Edge)
    output,               \* lines written to the output stream
    sim_result,           \* local sim_result
    can_pass_role,        \* local can_pass_role
    can_create_function,  \* local can_create_function
    func_data,            \* local func_data
    authz,                \* answers local_check_authorization has given
    calls,                \* calls made to the two policy functions, in order
    failure,              \* the pair whose policy call raised, or <<>>
    returned              \* the value return_edges returned, once pc = "done"

vars == <<nodes, session, inventory, function_list, pc, i, j, result, output,
          sim_result, can_pass_role, can_create_function, func_data, authz,
          calls, failure, returned>>

\* ----------------------------------------------------------------- strings
\* True iff the token sequence pat occurs contiguously in s (Python `pat in s`).
Contains(s, pat) ==
    \E p \in 0..(Len(s) - Len(pat)) :
        \A q \in 1..Len(pat) : s[p + q] = pat[q]

\* The pieces of s between separators sep (Python s.split(sep)).
RECURSIVE Split(_, _)
Split(s, sep) ==
    IF \A p \in 1..Len(s) : s[p] # sep
    THEN <<s>>
    ELSE LET p == CHOOSE q \in 1..Len(s) :
                     s[q] = sep /\ \A r \in 1..(q - 1) : s[r] # sep
         IN  <<SubSeq(s, 1, p - 1)>> \o Split(SubSeq(s, p + 1, Len(s)), sep)

\* arns.get_account_id: the fifth field of the ARN.
get_account_id(arn) == Split(arn, ":")[5]

\* -------------------------------------------------------------- the inputs
ArnPrefix == <<"arn", ":", "aws", ":", "iam", ":", ":", "111", ":">>

\* The name of the k-th node or function.
NameOf(k) == <<"0", "1", "2", "3", "4", "5", "6", "7">>[k + 1]

\* The positions of the input that hold roles; the others hold users.
RolePositions == {k \in 1..NumNodes : k % 2 = 0}

\* The ARN of the node at position k of the input. The first user is a plain
\* user; the later ones have a path with the segment role/ in it, which is
\* not the segment :role/ of a role.
NodeArn(k) ==
    IF k \in RolePositions THEN ArnPrefix \o <<"role", "/", NameOf(k)>>
    ELSE IF k = 1 THEN ArnPrefix \o <<"user", "/", NameOf(k)>>
    ELSE ArnPrefix \o <<"user", "/", "role", "/", NameOf(k)>>

\* A role that is not among the nodes.
OtherRoleArn == ArnPrefix \o <<"role", "/", NameOf(0)>>

FunctionArn(k) ==
    <<"arn", ":", "aws", ":", "lambda", ":", "us-east-1", ":", "111", ":",
      "function", ":", NameOf(k)>>

\* Trust policy documents of a role, by what they say about the Lambda
\* service principal; "malformed" is a document the evaluator cannot read.
\* A user has no trust policy (None).
TrustDocs == {"allow_lambda", "deny_lambda", "no_statement", "malformed"}

NodeSet(k) ==
    IF k \in RolePositions
    THEN [arn : {NodeArn(k)}, is_admin : BOOLEAN, trust_policy : TrustDocs]
    ELSE [arn : {NodeArn(k)}, is_admin : BOOLEAN, trust_policy : {"None"}]

NodeLists == {ns \in [1..NumNodes -> UNION {NodeSet(k) : k \in 1..NumNodes}] :
                 \A k \in 1..NumNodes : ns[k] \in NodeSet(k)}

\* The execution roles a listed function may have.
FuncRoles == {NodeArn(k) : k \in RolePositions} \cup {OtherRoleArn}

Inventories ==
    UNION {{[k \in 1..n |-> [FunctionArn |-> FunctionArn(k), Role |-> r[k]]] :
               r \in [1..n -> FuncRoles]} : n \in 0..MaxFuncs}

\* ------------------------------------------------- the policy evaluators
\* resource_policy_authorization('lambda.amazonaws.com', account, policy,
\* 'sts:AssumeRole', arn, {}): SERVICE_MATCH only on an explicit allow for
\* the service, an absent document matches nothing, an unreadable one raises.
resource_policy_authorization(service, account, policy, action, resource) ==
    CASE policy = "allow_lambda" /\ service = "lambda.amazonaws.com"
                                 /\ action = "sts:AssumeRole" -> "SERVICE_MATCH"
      [] policy = "deny_lambda"  -> "EXPLICIT_DENY"
      [] policy = "malformed"    -> "raise"
      [] OTHER                   -> "NO_MATCH"

\* A call of query_interface.local_check_authorization.
Query(s, action, resource, ctx) == <<s, action, resource, ctx>>

\* What local_check_authorization may answer to q: the answer it gave before
\* (it is a function of the node's policies), else allowed or denied.
Answers(q) == IF q \in DOMAIN authz THEN {authz[q]} ELSE BOOLEAN

\* local_check_authorization may raise on a query it has not answered.
MayRaise(q) == q \notin DOMAIN authz

Remember(q, a) == IF q \in DOMAIN authz THEN authz ELSE authz @@ (q :> a)

\* ------------------------------------------------------------------ edges
\* The reason strings: the format and the ARN substituted for {}.
ReasonCreate ==
    [fmt |-> "can use Lambda to create a new function with arbitrary code, then pass and access",
     arg |-> <<>>]
ReasonEdit(farn) ==
    [fmt |-> "can use Lambda to edit an existing function ({}) to access",
     arg |-> farn]
ReasonRepurpose(farn) ==
    [fmt |-> "can use Lambda to edit an existing function's code ({}), then pass and access",
     arg |-> farn]

\* Edge(source, destination, reason); the nodes are named by their position.
Edge(s, d, reason) == [source |-> s, destination |-> d, reason |-> reason]

\* output.write('Found new edge: {}\n'.format(new_edge.describe_edge()))
FoundLine(e) == [text |-> "Found new edge", edge |-> e]

\* --------------------------------------------------------------- the gates
\* node_source == node_destination
SameNode(a, b) == a = b

\* The admin check dropped.
SourceIsAdmin_NoCheck(n) == FALSE

\* node_source.is_admin
SourceIsAdmin(n) == n.is_admin

\* The role check dropped: every destination goes on to the policy check.
IsRoleArn_NoCheck(arn) == TRUE

\* ':role/' in node_destination.arn
IsRoleArn(arn) == Contains(arn, <<":", "role", "/">>)

\* Only NO_MATCH skips the pair: an explicit deny goes through.
PassesTrustGate_DenyPasses(v) == v # "NO_MATCH"

\* sim_result != ResourcePolicyEvalResult.SERVICE_MATCH is what skips the pair
PassesTrustGate(v) == v = "SERVICE_MATCH"

\* The functions listed whether or not there is a session.
ListedFunctions_Always(sess, inv) == inv

\* function_list after the listing loops: nothing without a session
ListedFunctions(sess, inv) == IF sess = "None" THEN <<>> ELSE inv

\* The exception caught and the pair skipped.
Propagate_SkipPair == "advance"

\* An exception raised by a policy call: return_edges has no handler, the
\* exception leaves it.
Propagate == "raised"

\* The create-function answer ignored.
EmitsCreateEdge_PassOnly(pass, create) == pass

\* if can_create_function: (under if can_pass_role:)
EmitsCreateEdge(pass, create) == pass /\ create

Min(S) == CHOOSE x \in S : \A y \in S : x <= y
Max(S) == CHOOSE x \in S : \A y \in S : x >= y

\* The scan run from the end of func_data: the last qualifying function wins.
FirstExisting_Last(fd, darn) ==
    LET S == {k \in 1..Len(fd) :
                 fd[k].func.Role = darn /\ fd[k].can_change_code}
    IN  IF S = {} THEN 0 ELSE Max(S)

\* First loop over func_data: the position of the first function whose Role
\* is the destination and whose code the source can change, 0 if none.
FirstExisting(fd, darn) ==
    LET S == {k \in 1..Len(fd) :
                 fd[k].func.Role = darn /\ fd[k].can_change_code}
    IN  IF S = {} THEN 0 ELSE Min(S)

\* Second loop over func_data: the first function whose code and
\* configuration the source can change, given it can pass the role.
FirstRepurpose(fd, pass) ==
    LET S == {k \in 1..Len(fd) :
                 fd[k].can_change_config /\ fd[k].can_change_code /\ pass}
    IN  IF S = {} THEN 0 ELSE Min(S)

\* ------------------------------------------------------------ call records
RpaCall(s, d, v) ==
    [fn |-> "resource_policy_authorization", s |-> s, d |-> d,
     principal |-> "lambda.amazonaws.com",
     account |-> get_account_id(nodes[s].arn),
     policy |-> nodes[d].trust_policy,
     action |-> "sts:AssumeRole", resource |-> nodes[d].arn,
     ctx |-> "none", ans |-> v]

LocalCall(s, d, q, a) ==
    [fn |-> "local_check_authorization", s |-> s, d |-> d,
     principal |-> "node", account |-> <<>>, policy |-> "none",
     action |-> q[2], resource |-> q[3], ctx |-> q[4], ans |-> a]

BoolText(b) == IF b THEN "True" ELSE "False"

\* ------------------------------------------------------------------- Init
Init ==
    /\ nodes \in NodeLists
    /\ session \in {"None", "live"}
    /\ inventory \in Inventories
    /\ function_list = <<>>
    /\ pc = "start"
    /\ i = 1 /\ j = 1
    /\ result = <<>>
    /\ output = <<>>
    /\ sim_result = "unset"
    /\ can_pass_role = FALSE
    /\ can_create_function = FALSE
    /\ func_data = <<>>
    /\ authz = [q \in {} |-> TRUE]
    /\ calls = <<>>
    /\ failure = <<>>
    /\ returned = <<>>

inputs == <<nodes, session, inventory>>
locals == <<sim_result, can_pass_role, can_create_function, func_data>>

\* The loop headers: the next (source, destination), or the return. The
\* per-pair locals are dead once the pair is left and are cleared.
NextPair ==
    /\ IF j < Len(nodes) THEN pc' = "pair" /\ i' = i /\ j' = j + 1
       ELSE IF i < Len(nodes) THEN pc' = "pair" /\ i' = i + 1 /\ j' = 1
       ELSE pc' = "ret" /\ i' = i /\ j' = j
    /\ sim_result' = "unset"
    /\ can_pass_role' = FALSE
    /\ can_create_function' = FALSE
    /\ func_data' = <<>>

\* A policy call of the current pair raises; cs are the records of the calls
\* of the step, the raising one last.
Raises(cs) ==
    /\ calls' = calls \o cs
    /\ failure' = <<i, j>>
    /\ IF Propagate = "advance" THEN NextPair
       ELSE pc' = Propagate /\ UNCHANGED <<i, j, locals>>
    /\ UNCHANGED <<inputs, function_list, result, output, authz, returned>>

\* --------------------------------------------------------------- actions
\* Lines 20-39: result = [], the clients and the listing of the functions.
ListFunctions ==
    /\ pc = "start"
    /\ function_list' = ListedFunctions(session, inventory)
    /\ pc' = "pair"
    /\ UNCHANGED <<inputs, i, j, result, output, locals, authz, calls,
                   failure, returned>>

\* Lines 44-45: skip self-access checks.
SkipSelf ==
    /\ pc = "pair"
    /\ SameNode(nodes[i], nodes[j])
    /\ NextPair
    /\ UNCHANGED <<inputs, function_list, result, output, authz, calls,
                   failure, returned>>

\* Lines 48-49: an admin source is not tracked via an Edge.
SkipAdmin ==
    /\ pc = "pair"
    /\ ~SameNode(nodes[i], nodes[j])
    /\ SourceIsAdmin(nodes[i])
    /\ NextPair
    /\ UNCHANGED <<inputs, function_list, result, output, authz, calls,
                   failure, returned>>

\* Lines 52-53: the destination must be a role.
SkipNotRole ==
    /\ pc = "pair"
    /\ ~SameNode(nodes[i], nodes[j])
    /\ ~SourceIsAdmin(nodes[i])
    /\ ~IsRoleArn(nodes[j].arn)
    /\ NextPair
    /\ UNCHANGED <<inputs, function_list, result, output, authz, calls,
                   failure, returned>>

\* Lines 56-67: can Lambda assume the destination role?
CheckTrust ==
    /\ pc = "pair"
    /\ ~SameNode(nodes[i], nodes[j])
    /\ ~SourceIsAdmin(nodes[i])
    /\ IsRoleArn(nodes[j].arn)
    /\ LET v == resource_policy_authorization(
                    "lambda.amazonaws.com", get_account_id(nodes[i].arn),
                    nodes[j].trust_policy, "sts:AssumeRole", nodes[j].arn)
       IN  IF v = "raise"
           THEN Raises(<<RpaCall(i, j, v)>>)
           ELSE /\ calls' = Append(calls, RpaCall(i, j, v))
                /\ IF PassesTrustGate(v)
                   THEN /\ pc' = "passrole"
                        /\ sim_result' = v
                        /\ UNCHANGED <<i, j, can_pass_role,
                                       can_create_function, func_data>>
                   ELSE NextPair
                /\ UNCHANGED <<inputs, function_list, result, output, authz,
                               failure, returned>>

\* Lines 70-73: can the source pass the destination role to Lambda?
CheckPassRole ==
    /\ pc = "passrole"
    /\ LET q == Query(i, "iam:PassRole", nodes[j].arn, "lambda.amazonaws.com")
       IN  \/ \E a \in Answers(q) :
                /\ can_pass_role' = a
                /\ authz' = Remember(q, a)
                /\ calls' = Append(calls, LocalCall(i, j, q, BoolText(a)))
                /\ pc' = IF a THEN "create" ELSE "funcs"
                /\ UNCHANGED <<inputs, function_list, i, j, result, output,
                               sim_result, can_create_function, func_data,
                               failure, returned>>
           \/ /\ MayRaise(q)
              /\ Raises(<<LocalCall(i, j, q, "raise")>>)

\* Lines 76-87: can the source create a function? Mechanism A.
CheckCreateFunction ==
    /\ pc = "create"
    /\ LET q == Query(i, "lambda:CreateFunction", <<"*">>, "none")
       IN  \/ \E a \in Answers(q) :
                /\ can_create_function' = a
                /\ authz' = Remember(q, a)
                /\ calls' = Append(calls, LocalCall(i, j, q, BoolText(a)))
                /\ IF EmitsCreateEdge(can_pass_role, a)
                   THEN /\ output' = Append(output,
                                       FoundLine(Edge(i, j, ReasonCreate)))
                        /\ result' = Append(result, Edge(i, j, ReasonCreate))
                   ELSE UNCHANGED <<output, result>>
                /\ pc' = "funcs"
                /\ UNCHANGED <<inputs, function_list, i, j, sim_result,
                               can_pass_role, func_data, failure, returned>>
           \/ /\ MayRaise(q)
              /\ Raises(<<LocalCall(i, j, q, "raise")>>)

\* Lines 90-97: one round of the loop that fills func_data.
CheckFunction ==
    /\ pc = "funcs"
    /\ Len(func_data) < Len(function_list)
    /\ LET func == function_list[Len(func_data) + 1]
           qc == Query(i, "lambda:UpdateFunctionCode", func.FunctionArn, "none")
           qf == Query(i, "lambda:UpdateFunctionConfiguration",
                       func.FunctionArn, "none")
       IN  \/ \E a \in Answers(qc), b \in Answers(qf) :
                /\ func_data' = Append(func_data,
                       [func |-> func, can_change_code |-> a,
                        can_change_config |-> b])
                /\ authz' = [q \in DOMAIN authz \cup {qc, qf} |->
                                IF q \in DOMAIN authz THEN authz[q]
                                ELSE IF q = qc THEN a ELSE b]
                /\ calls' = calls \o <<LocalCall(i, j, qc, BoolText(a)),
                                       LocalCall(i, j, qf, BoolText(b))>>
                /\ UNCHANGED <<inputs, function_list, pc, i, j, result,
                               output, sim_result, can_pass_role,
                               can_create_function, failure, returned>>
           \/ /\ MayRaise(qc)
              /\ Raises(<<LocalCall(i, j, qc, "raise")>>)
           \/ \E a \in Answers(qc) :
                /\ MayRaise(qf)
                /\ Raises(<<LocalCall(i, j, qc, BoolText(a)),
                            LocalCall(i, j, qf, "raise")>>)

\* Lines 100-109: mechanism B, edit a function that runs as the destination.
ScanExisting ==
    /\ pc = "funcs"
    /\ Len(func_data) = Len(function_list)
    /\ LET k == FirstExisting(func_data, nodes[j].arn)
       IN  IF k > 0
           THEN output' = Append(output, FoundLine(
                    Edge(i, j, ReasonEdit(func_data[k].func.FunctionArn))))
           ELSE UNCHANGED output
    /\ pc' = "repurpose"
    /\ UNCHANGED <<inputs, function_list, i, j, result, locals, authz, calls,
                   failure, returned>>

\* Lines 112-122: mechanism C, repurpose a function, then the next pair.
ScanRepurpose ==
    /\ pc = "repurpose"
    /\ LET k == FirstRepurpose(func_data, can_pass_role)
       IN  IF k > 0
           THEN output' = Append(output, FoundLine(
                    Edge(i, j, ReasonRepurpose(func_data[k].func.FunctionArn))))
           ELSE UNCHANGED output
    /\ NextPair
    /\ UNCHANGED <<inputs, function_list, result, authz, calls, failure,
                   returned>>

\* Line 124: return result.
Return ==
    /\ pc = "ret"
    /\ returned' = result
    /\ pc' = "done"
    /\ UNCHANGED <<inputs, function_list, i, j, result, output, locals, authz,
                   calls, failure>>

Next ==
    \/ ListFunctions
    \/ SkipSelf
    \/ SkipAdmin
    \/ SkipNotRole
    \/ CheckTrust
    \/ CheckPassRole
    \/ CheckCreateFunction
    \/ CheckFunction
    \/ ScanExisting
    \/ ScanRepurpose
    \/ Return

Spec == Init /\ [][Next]_vars

\* ------------------------------------------------------------- properties
Positions == 1..Len(nodes)

\* The resource-policy verdict of the pair (s, d).
Verdict(s, d) ==
    resource_policy_authorization(
        "lambda.amazonaws.com", get_account_id(nodes[s].arn),
        nodes[d].trust_policy, "sts:AssumeRole", nodes[d].arn)

\* The destination's identifier has the segment :role/.
RoleKind(d) == Contains(nodes[d].arn, <<":", "role", "/">>)

\* The pair passes the four gates.
PassesFourGates(s, d) ==
    /\ s # d
    /\ ~nodes[s].is_admin
    /\ RoleKind(d)
    /\ Verdict(s, d) = "SERVICE_MATCH"

\* local_check_authorization has answered True to the query.
Allowed(q) == q \in DOMAIN authz /\ authz[q]

PassRoleOk(s, d) ==
    Allowed(Query(s, "iam:PassRole", nodes[d].arn, "lambda.amazonaws.com"))
CreateOk(s) == Allowed(Query(s, "lambda:CreateFunction", <<"*">>, "none"))
CodeOk(s, k) ==
    Allowed(Query(s, "lambda:UpdateFunctionCode",
                  function_list[k].FunctionArn, "none"))
ConfigOk(s, k) ==
    Allowed(Query(s, "lambda:UpdateFunctionConfiguration",
                  function_list[k].FunctionArn, "none"))

\* The functions that qualify the pair for mechanism B and for mechanism C.
QualifyEdit(s, d) ==
    {k \in 1..Len(function_list) :
        function_list[k].Role = nodes[d].arn /\ CodeOk(s, k)}
QualifyRepurpose(s, d) ==
    {k \in 1..Len(function_list) :
        CodeOk(s, k) /\ ConfigOk(s, k) /\ PassRoleOk(s, d)}

\* The positions of a sequence of edges that hold an edge s -> d whose reason
\* has the given format.
EdgesAt(es, s, d, fmt) ==
    {p \in 1..Len(es) : es[p].source = s /\ es[p].destination = d
                        /\ es[p].reason.fmt = fmt}

\* The edges announced on the output, in order.
Announced == [p \in 1..Len(output) |-> output[p].edge]

\* Every edge the pass has produced so far, returned or announced.
Produced == {result[p] : p \in 1..Len(result)}
            \cup {returned[p] : p \in 1..Len(returned)}
            \cup {Announced[p] : p \in 1..Len(output)}

\* C1: in the returned sequence, a pair that passes the four gates has the
\* new-function edge exactly when the source's PassRole check (with
\* iam:PassedToService fixed to Lambda) and its CreateFunction check on '*'
\* both answered True; there is one such edge then, and none otherwise.
C1_NewFunctionEdgeIff ==
    pc = "done" =>
        \A s \in Positions, d \in Positions :
            PassesFourGates(s, d) =>
                /\ (Edge(s, d, ReasonCreate) \in
                        {returned[p] : p \in 1..Len(returned)})
                   <=> (PassRoleOk(s, d) /\ CreateOk(s))
                /\ Cardinality(EdgesAt(returned, s, d, ReasonCreate.fmt)) <= 1

\* A pass that returned the new-function edge for one pair, and for another
\* pair that may pass the role but not create functions returned none.
C1_Witness ==
    /\ pc = "done"
    /\ \E s \in Positions, d \in Positions :
          PassesFourGates(s, d) /\ PassRoleOk(s, d) /\ CreateOk(s)
          /\ Edge(s, d, ReasonCreate) \in {returned[p] : p \in 1..Len(returned)}
    /\ \E s \in Positions, d \in Positions :
          PassesFourGates(s, d) /\ PassRoleOk(s, d) /\ ~CreateOk(s)

\* C2: a pair that passes the four gates and has a listed function running
\* as the destination whose code the source may update has, in the returned
\* sequence, an edit-existing-function edge naming that function.
C2_EditEdgeReturned ==
    pc = "done" =>
        \A s \in Positions, d \in Positions :
            (PassesFourGates(s, d) /\ QualifyEdit(s, d) # {}) =>
                \E k \in QualifyEdit(s, d) :
                    Edge(s, d, ReasonEdit(function_list[k].FunctionArn))
                        \in {returned[p] : p \in 1..Len(returned)}

\* C3: a pair that passes the four gates, whose source may pass the role and
\* may update the code and the configuration of some listed function, has a
\* repurpose edge in the returned sequence.
C3_RepurposeEdgeReturned ==
    pc = "done" =>
        \A s \in Positions, d \in Positions :
            (PassesFourGates(s, d) /\ QualifyRepurpose(s, d) # {}) =>
                \E k \in QualifyRepurpose(s, d) :
                    Edge(s, d, ReasonRepurpose(function_list[k].FunctionArn))
                        \in {returned[p] : p \in 1..Len(returned)}

\* C4: a pair whose resource-policy verdict is NO_MATCH or EXPLICIT_DENY has
\* no edge, neither returned nor announced, by any mechanism.
C4_TrustGate ==
    \A s \in Positions, d \in Positions :
        Verdict(s, d) \in {"NO_MATCH", "EXPLICIT_DENY"} =>
            \A e \in Produced : ~(e.source = s /\ e.destination = d)

\* A finished online pass over a role whose trust policy denies Lambda, with
\* a function running as that role listed and the verdict asked for.
C4_Witness ==
    /\ pc = "done"
    /\ session = "live"
    /\ \E s \in Positions, d \in Positions :
          /\ Verdict(s, d) = "EXPLICIT_DENY"
          /\ \E k \in 1..Len(function_list) :
                function_list[k].Role = nodes[d].arn
          /\ \E p \in 1..Len(calls) :
                /\ calls[p].fn = "resource_policy_authorization"
                /\ calls[p].s = s /\ calls[p].d = d

\* C5: every edge produced, returned or announced, at every point of the
\* pass, goes from a non-admin source to a different, role-kind destination.
C5_PairSkipGates ==
    \A e \in Produced :
        /\ e.source # e.destination
        /\ ~nodes[e.source].is_admin
        /\ RoleKind(e.destination)

\* A finished pass that found an edge although one node is an admin and
\* another is a user with role/ in its path.
C5_Witness ==
    /\ pc = "done"
    /\ returned # <<>>
    /\ \E s \in Positions : nodes[s].is_admin
    /\ \E d \in Positions :
          ~RoleKind(d) /\ Contains(nodes[d].arn, <<"role", "/">>)

\* C6: per pair and mechanism at most one edge is announced and at most one
\* returned, and an announced edit or repurpose edge names the first
\* function of the inventory that qualifies.
C6_OnePerMechanism ==
    \A s \in Positions, d \in Positions :
        /\ \A fmt \in {ReasonCreate.fmt, ReasonEdit(<<>>).fmt,
                       ReasonRepurpose(<<>>).fmt} :
              /\ Cardinality(EdgesAt(Announced, s, d, fmt)) <= 1
              /\ Cardinality(EdgesAt(result, s, d, fmt)) <= 1
        /\ \A p \in EdgesAt(Announced, s, d, ReasonEdit(<<>>).fmt) :
              /\ QualifyEdit(s, d) # {}
              /\ Announced[p].reason.arg =
                    function_list[Min(QualifyEdit(s, d))].FunctionArn
        /\ \A p \in EdgesAt(Announced, s, d, ReasonRepurpose(<<>>).fmt) :
              /\ QualifyRepurpose(s, d) # {}
              /\ Announced[p].reason.arg =
                    function_list[Min(QualifyRepurpose(s, d))].FunctionArn

\* A finished pass in which two functions qualified a pair for the edit
\* mechanism and two for the repurpose mechanism.
C6_Witness ==
    /\ pc = "done"
    /\ \E s \in Positions, d \in Positions :
          /\ Cardinality(QualifyEdit(s, d)) >= 2
          /\ Cardinality(QualifyRepurpose(s, d)) >= 2
          /\ EdgesAt(Announced, s, d, ReasonEdit(<<>>).fmt) # {}
          /\ EdgesAt(Announced, s, d, ReasonRepurpose(<<>>).fmt) # {}

UpdateActions == {"lambda:UpdateFunctionCode",
                  "lambda:UpdateFunctionConfiguration"}

\* C7 as claimed: without a session, and with no policy call failing, the
\* pass does not raise and returns the empty sequence.
C7_OfflineReturnsEmpty ==
    (session = "None" /\ failure = <<>>) =>
        /\ pc # "raised"
        /\ pc = "done" => returned = <<>>

\* C7 amended: without a session no function is listed, no per-function
\* check is made and only new-function edges are announced; the returned
\* sequence is exactly the announced one and holds the new-function edge of
\* every pair that passes the four gates and whose PassRole and
\* CreateFunction checks answered True.
C7_OfflineOnlyCreateEdges ==
    session = "None" =>
        /\ function_list = <<>>
        /\ \A p \in 1..Len(calls) : calls[p].action \notin UpdateActions
        /\ \A p \in 1..Len(output) : Announced[p].reason = ReasonCreate
        /\ pc = "done" =>
              /\ returned = Announced
              /\ \A s \in Positions, d \in Positions :
                    (PassesFourGates(s, d) /\ PassRoleOk(s, d) /\ CreateOk(s))
                        => Edge(s, d, ReasonCreate) \in Produced

\* An offline pass that returned an edge, although the provider has functions.
C7_Witness ==
    /\ session = "None"
    /\ inventory # <<>>
    /\ pc = "done"
    /\ returned # <<>>

\* The pairs that come after (s, d) in the order of the two loops.
After(s, d) ==
    {pr \in Positions \X Positions :
        pr[1] > s \/ (pr[1] = s /\ pr[2] > d)}

\* C8 as claimed: after a policy call has failed the pass is not aborted,
\* and the output holds a line reporting the failure.
C8_FailureSkipsPair ==
    failure # <<>> =>
        /\ pc # "raised"
        /\ \E p \in 1..Len(output) : output[p].text # "Found new edge"

\* C8 amended: a policy call that fails ends the pass at that pair: the
\* exception leaves return_edges, nothing is returned, the failing call is
\* the last call made, no later pair is evaluated and the output holds only
\* the edges announced until then, with no line about the failure.
C8_FailureAborts ==
    failure # <<>> =>
        /\ pc = "raised"
        /\ failure = <<i, j>>
        /\ returned = <<>>
        /\ calls # <<>>
        /\ calls[Len(calls)].ans = "raise"
        /\ calls[Len(calls)].s = i /\ calls[Len(calls)].d = j
        /\ \A p \in 1..(Len(calls) - 1) : calls[p].ans # "raise"
        /\ \A p \in 1..Len(output) : output[p].text = "Found new edge"
        /\ \A pr \in After(i, j) :
              /\ \A p \in 1..Len(calls) :
                    ~(calls[p].s = pr[1] /\ calls[p].d = pr[2])
              /\ \A e \in Produced :
                    ~(e.source = pr[1] /\ e.destination = pr[2])

\* A pass aborted by a failing call after edges had been found, with a later
\* pair left that passes the four gates.
C8_Witness ==
    /\ pc = "raised"
    /\ output # <<>>
    /\ \E pr \in After(i, j) : PassesFourGates(pr[1], pr[2])

\* C9: at the end of a pass without errors the announced edges and the
\* returned edges are the same.
C9_SinkMatchesResult ==
    pc = "done" => returned = Announced

\* C10: every policy call is made for a pair that passed the self, admin and
\* role checks; the resource-policy call never gets an absent trust policy;
\* a local check comes after a SERVICE_MATCH verdict for its pair; and after
\* another verdict no call is made for the pair.
C10_GateOrder ==
    \A p \in 1..Len(calls) :
        LET c == calls[p] IN
        /\ c.s # c.d
        /\ ~nodes[c.s].is_admin
        /\ RoleKind(c.d)
        /\ c.fn = "resource_policy_authorization" =>
              /\ c.policy # "None"
              /\ c.ans # "SERVICE_MATCH" =>
                    \A r \in (p + 1)..Len(calls) :
                        ~(calls[r].s = c.s /\ calls[r].d = c.d)
        /\ c.fn = "local_check_authorization" =>
              \E r \in 1..(p - 1) :
                  /\ calls[r].fn = "resource_policy_authorization"
                  /\ calls[r].s = c.s /\ calls[r].d = c.d
                  /\ calls[r].ans = "SERVICE_MATCH"

\* A finished pass with per-function checks made for one pair and no call
\* at all for a pair whose destination is not a role.
C10_Witness ==
    /\ pc = "done"
    /\ \E p \in 1..Len(calls) : calls[p].action \in UpdateActions
    /\ \E s \in Positions, d \in Positions :
          /\ s # d /\ ~nodes[s].is_admin /\ ~RoleKind(d)
          /\ \A p \in 1..Len(calls) : ~(calls[p].s = s /\ calls[p].d = d)
          /\ \E p \in 1..Len(calls) : calls[p].s = s

====
